---------------------------- MODULE Spec2Model ----------------------------
(***************************************************************************)
(* A model of the CHIP-8 virtual machine of src/src/chip8.rs, its ROM      *)
(* loader (src/src/rom.rs) and the host main loop (src/src/main.rs).       *)
(*                                                                         *)
(* The machine state is the struct VirtualMachine, one variable per field. *)
(* One action models one call of the host: loading the cartridge, one      *)
(* run_cycle, the repaint that follows it, and quitting.                   *)
(*                                                                         *)
(* Rust semantics that matter here:                                        *)
(*   - indexing an array out of bounds panics in every build;              *)
(*   - +, -, += and -= on u8/u16 that overflow panic when the build has    *)
(*     overflow checks (debug profile) and wrap when it has none (release  *)
(*     profile); the variable overflow_checks is the profile of the build; *)
(*   - `as u8` truncates, << and >> drop the bits shifted out.             *)
(* A panic unwinds main: the process ends (phase = "panicked").            *)
(***************************************************************************)
EXTENDS Integers, Sequences, FiniteSets, TLC

VARIABLES
    opcode,          \* VirtualMachine.opcode: u16
    stack,           \* VirtualMachine.stack: [u8; 16], indexed 0..15
    sp,              \* VirtualMachine.sp: u16
    memory,          \* VirtualMachine.memory: [u8; 4096], indexed 0..4095
    V,               \* VirtualMachine.V: [u8; 16]
    I,               \* VirtualMachine.I: u16
    pc,              \* VirtualMachine.pc: u16
    graphics,        \* VirtualMachine.graphics[y][x], y in 0..31, x in 0..63
    draw_to_screen,  \* VirtualMachine.draw_to_screen: bool
    keypad,          \* VirtualMachine.keypad: [u8; 16]
    delay_timer,     \* VirtualMachine.delay_timer: u8
    sound_timer,     \* VirtualMachine.sound_timer: u8
    stderr,          \* what the eprintln! calls of run_cycle have written
    rom_file,        \* the bytes of the ROM file named on the command line
    overflow_checks, \* the build profile: TRUE = arithmetic overflow panics
    phase,           \* where main is: "boot", "cycle", "render", "exited", "panicked"
    returned,        \* what the last run_cycle call gave main, a record:
                     \* kind "none" before the first call, "()" (the return
                     \* type of run_cycle), "panic" when it did not return
    cycles,          \* history: how many run_cycle calls main has made
    call_sites,      \* history: pc and sp at each call not yet returned from
    before           \* history: V and graphics as the last run_cycle found them

vars == <<opcode, stack, sp, memory, V, I, pc, graphics, draw_to_screen,
          keypad, delay_timer, sound_timer, stderr, rom_file,
          overflow_checks, phase, returned, cycles, call_sites, before>>

-----------------------------------------------------------------------------
(* Program constants *)

MEMORY_SIZE == 4096
SCREEN_WIDTH == 64
SCREEN_HEIGHT == 32
STACK_SIZE == 16
NUM_REGS == 16
NUM_KEYS == 16
MAX_ROM_SIZE == 3584
ROM_BASE == 512
PC_START == 512
FONTSET_SIZE == 80
U8 == 256
U16 == 65536

FONTSET ==
    << 240, 144, 144, 144, 240,   \* 0
        32,  96,  32,  32, 112,   \* 1
       240,  16, 240, 128, 240,   \* 2
       240,  16, 240,  16, 240,   \* 3
       144, 144, 240,  16,  16,   \* 4
       240, 128, 240,  16, 240,   \* 5
       240, 128, 240, 144, 240,   \* 6
       240,  16,  32,  64,  64,   \* 7
       240, 144, 240, 144, 240,   \* 8
       240, 144, 240,  16, 240,   \* 9
       240, 144, 240, 144, 144,   \* A
       224, 144, 224, 144, 224,   \* B
       240, 128, 128, 128, 240,   \* C
       224, 144, 144, 144, 224,   \* D
       240, 128, 240, 128, 240,   \* E
       240, 128, 240, 128, 128 >> \* F

-----------------------------------------------------------------------------
(* Bitwise operators of Rust on unsigned integers *)

RECURSIVE BitAnd(_, _)
BitAnd(a, b) ==
    IF a = 0 \/ b = 0 THEN 0
    ELSE (a % 2) * (b % 2) + 2 * BitAnd(a \div 2, b \div 2)

RECURSIVE BitOr(_, _)
BitOr(a, b) ==
    IF a = 0 THEN b
    ELSE IF b = 0 THEN a
    ELSE (IF a % 2 = 1 \/ b % 2 = 1 THEN 1 ELSE 0) + 2 * BitOr(a \div 2, b \div 2)

RECURSIVE BitXor(_, _)
BitXor(a, b) ==
    IF a = 0 THEN b
    ELSE IF b = 0 THEN a
    ELSE ((a + b) % 2) + 2 * BitXor(a \div 2, b \div 2)

RECURSIVE Pow2(_)
Pow2(n) == IF n = 0 THEN 1 ELSE 2 * Pow2(n - 1)

Shr(a, n) == a \div Pow2(n)

\* a << n on a u8: the bits shifted out are dropped
ShlU8(a, n) == (a * Pow2(n)) % U8

-----------------------------------------------------------------------------
(* The machine as a record, so that a handler is a function of the state *)

VM ==
    [opcode |-> opcode, stack |-> stack, sp |-> sp, memory |-> memory,
     V |-> V, I |-> I, pc |-> pc, graphics |-> graphics,
     draw_to_screen |-> draw_to_screen, keypad |-> keypad,
     delay_timer |-> delay_timer, sound_timer |-> sound_timer,
     stderr |-> stderr, panicked |-> FALSE]

\* VirtualMachine::new
new ==
    [opcode |-> 0,
     I |-> 0,
     sp |-> 0,
     pc |-> PC_START,
     stack |-> [i \in 0..(STACK_SIZE - 1) |-> 0],
     keypad |-> [i \in 0..(NUM_KEYS - 1) |-> 0],
     memory |-> [i \in 0..(MEMORY_SIZE - 1) |->
                    IF i < FONTSET_SIZE THEN FONTSET[i + 1] ELSE 0],
     graphics |-> [y \in 0..(SCREEN_HEIGHT - 1) |->
                     [x \in 0..(SCREEN_WIDTH - 1) |-> 0]],
     V |-> [i \in 0..(NUM_REGS - 1) |-> 0],
     draw_to_screen |-> FALSE,
     sound_timer |-> 0,
     delay_timer |-> 0,
     stderr |-> << >>,
     panicked |-> FALSE]

\* a panic!: the step ends here and the process unwinds
Panic(s) == [s EXCEPT !.panicked = TRUE]


-----------------------------------------------------------------------------
(* Opcode fields and small helpers *)

\* The index self.pc and self.pc + 1 of fetch_opcode are both inside memory
FetchInBounds(s) == s.pc < MEMORY_SIZE /\ s.pc + 1 < MEMORY_SIZE

\* fetch_opcode: (memory[pc] as u16) << 8 | memory[pc + 1] as u16
fetch_opcode(s) == BitOr((s.memory[s.pc] * 256) % U16, s.memory[s.pc + 1])

\* vx: X = (opcode & 0x0F00) >> 8 and V[X]
vx(s) ==
    LET X == Shr(BitAnd(s.opcode, 3840), 8)
    IN  [X |-> X, VX |-> s.V[X]]

\* vy: Y = (opcode & 0x00F0) >> 4 and V[Y]
vy(s) ==
    LET Y == Shr(BitAnd(s.opcode, 240), 4)
    IN  [Y |-> Y, VY |-> s.V[Y]]

\* opcode & 0x0FFF
NNN(s) == BitAnd(s.opcode, 4095)

\* opcode & 0x00FF
NN(s) == BitAnd(s.opcode, 255)

\* self.pc += k (pc <= 4094 after a fetch, so the u16 never overflows)
AdvancePc(s, k) == [s EXCEPT !.pc = @ + k]

\* a variant of the unknown-opcode arms that also steps over the word
UnknownOpcode_Skipping(s, arm, op) ==
    [s EXCEPT !.stderr = Append(@, [arm |-> arm, op |-> op]), !.pc = @ + 2]

\* eprintln!("Unknown opcode ...", op): the step does nothing else
UnknownOpcode(s, arm, op) ==
    [s EXCEPT !.stderr = Append(@, [arm |-> arm, op |-> op])]

\* a variant of clear_screen that does not ask for a repaint
clear_screen_NotDirty(s) ==
    [s EXCEPT !.graphics = [y \in 0..(SCREEN_HEIGHT - 1) |->
                              [x \in 0..(SCREEN_WIDTH - 1) |-> 0]]]

\* clear_screen
clear_screen(s) ==
    [s EXCEPT !.graphics = [y \in 0..(SCREEN_HEIGHT - 1) |->
                              [x \in 0..(SCREEN_WIDTH - 1) |-> 0]],
              !.draw_to_screen = TRUE]

\* vx_vy_bin_op
vx_vy_bin_op(s, binop) ==
    LET X == vx(s).X
        VY == vy(s).VY
        s1 == CASE binop = "Attrib" -> [s EXCEPT !.V[X] = VY]
                [] binop = "Xor" -> [s EXCEPT !.V[X] = BitXor(@, VY)]
                [] binop = "And" -> [s EXCEPT !.V[X] = BitAnd(@, VY)]
                [] binop = "Or" -> [s EXCEPT !.V[X] = BitOr(@, VY)]
    IN  AdvancePc(s1, 2)

\* compare_vx_and_nn
compare_vx_and_nn(s, cmptype) ==
    LET VX == vx(s).VX
    IN  IF cmptype = "Equality"
        THEN (IF VX = NN(s) THEN AdvancePc(s, 4) ELSE AdvancePc(s, 2))
        ELSE (IF VX # NN(s) THEN AdvancePc(s, 4) ELSE AdvancePc(s, 2))

-----------------------------------------------------------------------------
(* draw_sprite.  x and y are the VALUES of VX and VY, and the loop indexes  *)
(* the register file with them: self.V[y as usize], self.V[x as usize].     *)

\* one pixel of the inner loop: for bit in 0..8, at line y
RECURSIVE draw_bits(_, _, _, _, _)
draw_bits(s, x, y, byte, bit) ==
    IF bit >= 8 \/ s.panicked THEN s
    ELSE IF x >= NUM_REGS THEN Panic(s)                 \* self.V[x as usize]
    ELSE IF s.I + byte >= MEMORY_SIZE THEN Panic(s)     \* self.memory[I + byte]
    ELSE
        LET px == (s.V[x] + bit) % SCREEN_WIDTH
            color == BitAnd(Shr(s.memory[s.I + byte], 7 - bit), 1)
            s1 == [s EXCEPT !.V[15] = BitOr(@, BitAnd(color, s.graphics[y][px]))]
            s2 == [s1 EXCEPT !.graphics[y][px] = BitXor(@, color)]
        IN  draw_bits(s2, x, y, byte, bit + 1)

\* the outer loop: for byte in 0..n
RECURSIVE draw_rows(_, _, _, _, _)
draw_rows(s, x, y, n, byte) ==
    IF byte >= n \/ s.panicked THEN s
    ELSE IF y >= NUM_REGS THEN Panic(s)                 \* self.V[y as usize]
    ELSE
        LET py == (s.V[y] + byte) % SCREEN_HEIGHT
        IN  draw_rows(draw_bits(s, x, py, byte, 0), x, y, n, byte + 1)

draw_sprite(s) ==
    LET x == vx(s).VX
        y == vy(s).VY
        n == BitAnd(s.opcode, 15)
        s1 == [s EXCEPT !.V[15] = 0]
        s2 == draw_rows(s1, x, y, n, 0)
    IN  IF s2.panicked THEN s2 ELSE [s2 EXCEPT !.draw_to_screen = TRUE]

-----------------------------------------------------------------------------
(* The arms of run_cycle's match, one operator per opcode *)

\* 00E0 (any 0NNN whose low nibble is 0): clear the screen
op_00E0(s) == AdvancePc(clear_screen(s), 2)

\* 00EE (any 0NNN whose low nibble is E): return from subroutine.
\* self.sp -= 1 underflows at sp = 0: a panic with overflow checks, else
\* sp wraps to 65535 and self.stack[65535] is out of bounds.
op_00EE(s) ==
    IF s.sp = 0 /\ overflow_checks THEN Panic(s)
    ELSE
        LET s1 == [s EXCEPT !.sp = (@ + U16 - 1) % U16]
        IN  IF s1.sp >= STACK_SIZE THEN Panic(s1)
            ELSE [s1 EXCEPT !.pc = s1.stack[s1.sp] + 2]

\* 1NNN: jump
op_1NNN(s) == [s EXCEPT !.pc = NNN(s)]

\* 2NNN: call.  self.stack[sp] = self.pc as u8 keeps the low byte of pc.
op_2NNN(s) ==
    IF s.sp >= STACK_SIZE THEN Panic(s)
    ELSE
        LET s1 == [s EXCEPT !.stack[s.sp] = s.pc % U8]
            s2 == [s1 EXCEPT !.sp = @ + 1]
        IN  [s2 EXCEPT !.pc = NNN(s)]

\* 5XY0 (any 5XYN): skip if VX == VY
op_5XY0(s) ==
    IF vx(s).VX = vy(s).VY THEN AdvancePc(s, 4) ELSE AdvancePc(s, 2)

\* 6XNN: VX = NN
op_6XNN(s) == AdvancePc([s EXCEPT !.V[vx(s).X] = NN(s)], 2)

\* 7XNN: self.V[X] += NN as u8 (the NN % 256 of the code changes nothing)
op_7XNN(s) ==
    LET X == vx(s).X
        VX == vx(s).VX
        nn == IF NN(s) + VX > 255 THEN NN(s) % 256 ELSE NN(s)
    IN  IF s.V[X] + (nn % U8) > 255 /\ overflow_checks THEN Panic(s)
        ELSE AdvancePc([s EXCEPT !.V[X] = (@ + (nn % U8)) % U8], 2)

\* a variant of 8XY4 that stores the sum in VY
op_8XY4_IntoVY(s) ==
    LET Y == vy(s).Y
        VX == vx(s).VX
        VY == vy(s).VY
    IN  IF VX + VY > 255 /\ overflow_checks THEN Panic(s)
        ELSE
            LET sum == (VX + VY) % U8
                s1 == [s EXCEPT !.V[15] = IF sum > 255 THEN 1 ELSE 0]
                s2 == [s1 EXCEPT !.V[Y] = BitAnd(sum, 255)]
            IN  AdvancePc(s2, 2)

\* 8XY4: let sum = (VX + VY) as u16: the sum is made in u8 and widened after
op_8XY4(s) ==
    LET X == vx(s).X
        VX == vx(s).VX
        VY == vy(s).VY
    IN  IF VX + VY > 255 /\ overflow_checks THEN Panic(s)
        ELSE
            LET sum == (VX + VY) % U8
                s1 == [s EXCEPT !.V[15] = IF sum > 255 THEN 1 ELSE 0]
                s2 == [s1 EXCEPT !.V[X] = BitAnd(sum, 255)]
            IN  AdvancePc(s2, 2)

\* 8XY5: VF = borrow, then self.V[X] -= VY
op_8XY5(s) ==
    LET X == vx(s).X
        VX == vx(s).VX
        VY == vy(s).VY
        s1 == [s EXCEPT !.V[15] = IF VY > VX THEN 1 ELSE 0]
    IN  IF s1.V[X] < VY /\ overflow_checks THEN Panic(s1)
        ELSE AdvancePc([s1 EXCEPT !.V[X] = (@ + U8 - VY) % U8], 2)

\* 8XY6: VF = VX & 1, then self.V[X] >>= 1
op_8XY6(s) ==
    LET X == vx(s).X
        VX == vx(s).VX
        s1 == [s EXCEPT !.V[15] = BitAnd(VX, 1)]
    IN  AdvancePc([s1 EXCEPT !.V[X] = Shr(@, 1)], 2)

\* 8XY7: VF = (VY > VX), then self.V[X] = VY - VX
op_8XY7(s) ==
    LET X == vx(s).X
        VX == vx(s).VX
        VY == vy(s).VY
        s1 == [s EXCEPT !.V[15] = IF VY > VX THEN 1 ELSE 0]
    IN  IF VY < VX /\ overflow_checks THEN Panic(s1)
        ELSE AdvancePc([s1 EXCEPT !.V[X] = (VY + U8 - VX) % U8], 2)

\* 8XYE: VF = VX & 0x80, then self.V[X] <<= 1; the arm has no self.pc += 2
op_8XYE(s) ==
    LET X == vx(s).X
        VX == vx(s).VX
        s1 == [s EXCEPT !.V[15] = BitAnd(VX, 128)]
    IN  [s1 EXCEPT !.V[X] = ShlU8(@, 1)]

\* 9XY0 (any 9XYN): skip if VX != VY
op_9XY0(s) ==
    IF vx(s).VX # vy(s).VY THEN AdvancePc(s, 4) ELSE AdvancePc(s, 2)

\* ANNN: I = NNN
op_ANNN(s) == AdvancePc([s EXCEPT !.I = NNN(s)], 2)

\* BNNN: pc = NNN + V0 (at most 0xFFF + 0xFF: no u16 overflow)
op_BNNN(s) == [s EXCEPT !.pc = NNN(s) + s.V[0]]

\* CXNN: VX = random byte & NN
op_CXNN(s, rnd) == AdvancePc([s EXCEPT !.V[vx(s).X] = BitAnd(rnd, NN(s))], 2)

\* DXYN
op_DXYN(s) ==
    LET s1 == draw_sprite(s)
    IN  IF s1.panicked THEN s1 ELSE AdvancePc(s1, 2)

\* EX9E: skip if self.keypad[VX as usize] != 0
op_EX9E(s) ==
    LET VX == vx(s).VX
    IN  IF VX >= NUM_KEYS THEN Panic(s)
        ELSE IF s.keypad[VX] # 0 THEN AdvancePc(s, 4) ELSE AdvancePc(s, 2)

\* a variant of EXA1 that tests the key as EX9E does
op_EXA1_IfPressed(s) ==
    LET VX == vx(s).VX
    IN  IF VX >= NUM_KEYS THEN Panic(s)
        ELSE IF s.keypad[VX] # 0 THEN AdvancePc(s, 4) ELSE AdvancePc(s, 2)

\* EXA1: skip if self.keypad[VX as usize] == 0
op_EXA1(s) ==
    LET VX == vx(s).VX
    IN  IF VX >= NUM_KEYS THEN Panic(s)
        ELSE IF s.keypad[VX] = 0 THEN AdvancePc(s, 4) ELSE AdvancePc(s, 2)

\* FX07: VX = delay_timer
op_FX07(s) == AdvancePc([s EXCEPT !.V[vx(s).X] = s.delay_timer], 2)

\* a variant of FX0A that steps over the instruction with no key pressed
op_FX0A_Advancing(s) ==
    LET pressed == {i \in 0..(NUM_KEYS - 1) : s.keypad[i] # 0}
        last == CHOOSE i \in pressed : \A j \in pressed : j <= i
    IN  IF pressed = {} THEN AdvancePc(s, 2)
        ELSE AdvancePc([s EXCEPT !.V[vx(s).X] = last], 2)

\* a variant of FX0A that stores the 1-based number of the key
op_FX0A_OneBased(s) ==
    LET pressed == {i \in 0..(NUM_KEYS - 1) : s.keypad[i] # 0}
        last == CHOOSE i \in pressed : \A j \in pressed : j <= i
    IN  IF pressed = {} THEN s
        ELSE AdvancePc([s EXCEPT !.V[vx(s).X] = last + 1], 2)

\* FX0A: for i in 0..16 { if keypad[i] != 0 { V[X] = i } }: the last pressed
\* key wins; pc advances only if some key was pressed
op_FX0A(s) ==
    LET pressed == {i \in 0..(NUM_KEYS - 1) : s.keypad[i] # 0}
        last == CHOOSE i \in pressed : \A j \in pressed : j <= i
    IN  IF pressed = {} THEN s
        ELSE AdvancePc([s EXCEPT !.V[vx(s).X] = last], 2)

\* FX15: delay_timer = VX
op_FX15(s) == AdvancePc([s EXCEPT !.delay_timer = vx(s).VX], 2)

\* a variant of FX18 that assigns the delay timer, as FX15 does
op_FX18_SetsDelay(s) == AdvancePc([s EXCEPT !.delay_timer = vx(s).VX], 2)

\* FX18: sound_timer = VX
op_FX18(s) == AdvancePc([s EXCEPT !.sound_timer = vx(s).VX], 2)

\* a variant of FX1E whose flag test is >= 0xFFF
op_FX1E_AtLeast(s) ==
    LET VX == vx(s).VX
    IN  IF s.I + VX >= U16 /\ overflow_checks THEN Panic(s)
        ELSE
            LET s1 == [s EXCEPT !.V[15] = IF (s.I + VX) % U16 >= 4095 THEN 1 ELSE 0]
            IN  AdvancePc([s1 EXCEPT !.I = (@ + VX) % U16], 2)

\* FX1E: VF = (I + VX > 0xFFF), then I += VX, both in u16
op_FX1E(s) ==
    LET VX == vx(s).VX
    IN  IF s.I + VX >= U16 /\ overflow_checks THEN Panic(s)
        ELSE
            LET s1 == [s EXCEPT !.V[15] = IF (s.I + VX) % U16 > 4095 THEN 1 ELSE 0]
            IN  AdvancePc([s1 EXCEPT !.I = (@ + VX) % U16], 2)

\* FX29: I = VX * 5
op_FX29(s) == AdvancePc([s EXCEPT !.I = vx(s).VX * 5], 2)

\* FX33: BCD of VX at I+2 (ones), I+1 (tens), I (hundreds), in that order
op_FX33(s) ==
    LET VX == vx(s).VX
    IN  IF s.I + 2 >= U16 /\ overflow_checks THEN Panic(s)
        ELSE IF (s.I + 2) % U16 >= MEMORY_SIZE THEN Panic(s)
        ELSE
            LET s1 == [s EXCEPT !.memory[(s.I + 2) % U16] = VX % 10]
            IN  IF s.I + 1 >= U16 /\ overflow_checks THEN Panic(s1)
                ELSE IF (s.I + 1) % U16 >= MEMORY_SIZE THEN Panic(s1)
                ELSE
                    LET s2 == [s1 EXCEPT !.memory[(s.I + 1) % U16] = (VX \div 10) % 10]
                    IN  IF s.I >= MEMORY_SIZE THEN Panic(s2)
                        ELSE AdvancePc(
                                [s2 EXCEPT !.memory[s.I] = ((VX \div 10) \div 10) % 10], 2)

\* the loop of FX55: let I = self.I as u8; memory[(I + i) as usize] = V[i],
\* where I + i is a u8 addition
RECURSIVE reg_dump(_, _, _, _)
reg_dump(s, I8, X, i) ==
    IF i > X THEN s
    ELSE IF I8 + i > 255 /\ overflow_checks THEN Panic(s)
    ELSE reg_dump([s EXCEPT !.memory[(I8 + i) % U8] = s.V[i]], I8, X, i + 1)

\* FX55: dump V0..VX, then self.I += (X + 1) as u16
op_FX55(s) ==
    LET X == vx(s).X
        s1 == reg_dump(s, s.I % U8, X, 0)
    IN  IF s1.panicked THEN s1
        ELSE IF s1.I + X + 1 >= U16 /\ overflow_checks THEN Panic(s1)
        ELSE AdvancePc([s1 EXCEPT !.I = (@ + X + 1) % U16], 2)

\* the loop of FX65: V[i] = memory[(I + i) as usize] with I = self.I as u8
RECURSIVE reg_load(_, _, _, _)
reg_load(s, I8, X, i) ==
    IF i > X THEN s
    ELSE IF I8 + i > 255 /\ overflow_checks THEN Panic(s)
    ELSE reg_load([s EXCEPT !.V[i] = s.memory[(I8 + i) % U8]], I8, X, i + 1)

\* a variant of FX65 that copies in the direction of FX55
op_FX65_Dumping(s) == op_FX55(s)

\* FX65: load V0..VX, then self.I += (X + 1) as u16
op_FX65(s) ==
    LET X == vx(s).X
        s1 == reg_load(s, s.I % U8, X, 0)
    IN  IF s1.panicked THEN s1
        ELSE IF s1.I + X + 1 >= U16 /\ overflow_checks THEN Panic(s1)
        ELSE AdvancePc([s1 EXCEPT !.I = (@ + X + 1) % U16], 2)

-----------------------------------------------------------------------------
(* run_cycle *)

\* match self.opcode & 0xF000 { ... }, with the inner matches on
\* opcode & 0x000F (classes 0 and 8) and opcode & 0x00FF (classes E and F)
execute(s, rnd) ==
    LET class == BitAnd(s.opcode, 61440)
        low4 == BitAnd(s.opcode, 15)
        low8 == BitAnd(s.opcode, 255)
    IN  CASE class = 0 ->
                (CASE low4 = 0 -> op_00E0(s)
                   [] low4 = 14 -> op_00EE(s)
                   [] OTHER -> UnknownOpcode(s, "0x0000", low4))
          [] class = 4096 -> op_1NNN(s)
          [] class = 8192 -> op_2NNN(s)
          [] class = 12288 -> compare_vx_and_nn(s, "Equality")
          [] class = 16384 -> compare_vx_and_nn(s, "Inequality")
          [] class = 20480 -> op_5XY0(s)
          [] class = 24576 -> op_6XNN(s)
          [] class = 28672 -> op_7XNN(s)
          [] class = 32768 ->
                (CASE low4 = 0 -> vx_vy_bin_op(s, "Attrib")
                   [] low4 = 1 -> vx_vy_bin_op(s, "Or")
                   [] low4 = 2 -> vx_vy_bin_op(s, "And")
                   [] low4 = 3 -> vx_vy_bin_op(s, "Xor")
                   [] low4 = 4 -> op_8XY4(s)
                   [] low4 = 5 -> op_8XY5(s)
                   [] low4 = 6 -> op_8XY6(s)
                   [] low4 = 7 -> op_8XY7(s)
                   [] low4 = 14 -> op_8XYE(s)
                   [] OTHER -> UnknownOpcode(s, "0x8000", low4))
          [] class = 36864 -> op_9XY0(s)
          [] class = 40960 -> op_ANNN(s)
          [] class = 45056 -> op_BNNN(s)
          [] class = 49152 -> op_CXNN(s, rnd)
          [] class = 53248 -> op_DXYN(s)
          [] class = 57344 ->
                (CASE low8 = 158 -> op_EX9E(s)
                   [] low8 = 161 -> op_EXA1(s)
                   [] OTHER -> UnknownOpcode(s, "EX", low8))
          [] class = 61440 ->
                (CASE low8 = 7 -> op_FX07(s)
                   [] low8 = 10 -> op_FX0A(s)
                   [] low8 = 21 -> op_FX15(s)
                   [] low8 = 24 -> op_FX18(s)
                   [] low8 = 30 -> op_FX1E(s)
                   [] low8 = 41 -> op_FX29(s)
                   [] low8 = 51 -> op_FX33(s)
                   [] low8 = 85 -> op_FX55(s)
                   [] low8 = 101 -> op_FX65(s)
                   [] OTHER -> UnknownOpcode(s, "FX", low8))

\* a variant of the timer code whose second if is an else-if
tick_timers_ElseIf(s) ==
    IF s.delay_timer > 0 THEN [s EXCEPT !.delay_timer = @ - 1]
    ELSE IF s.sound_timer > 0 THEN [s EXCEPT !.sound_timer = @ - 1]
    ELSE s

\* the two ifs that end run_cycle
tick_timers(s) ==
    LET s1 == IF s.delay_timer > 0 THEN [s EXCEPT !.delay_timer = @ - 1] ELSE s
    IN  IF s1.sound_timer > 0 THEN [s1 EXCEPT !.sound_timer = @ - 1] ELSE s1

\* run_cycle: fetch (memory[pc], memory[pc + 1]: out of bounds panics),
\* execute, tick the timers.  It returns (), or never returns (a panic).
run_cycle(s, rnd) ==
    IF ~FetchInBounds(s) THEN Panic(s)
    ELSE
        LET s1 == [s EXCEPT !.opcode = fetch_opcode(s)]
            s2 == execute(s1, rnd)
        IN  IF s2.panicked THEN s2 ELSE tick_timers(s2)

-----------------------------------------------------------------------------
(* The cartridge *)

\* Cartridge::new: Err if the file is longer than MAX_ROM_SIZE, else the
\* bytes read into a zeroed buffer of MAX_ROM_SIZE bytes and their count
Cartridge_new(file) ==
    IF Len(file) > MAX_ROM_SIZE
    THEN [ok |-> FALSE, data |-> << >>, size |-> 0]
    ELSE [ok |-> TRUE,
          data |-> [i \in 0..(MAX_ROM_SIZE - 1) |->
                      IF i < Len(file) THEN file[i + 1] ELSE 0],
          size |-> Len(file)]

\* a variant of load_rom whose loop stops one byte early
load_rom_OneShort(s, cart) ==
    [s EXCEPT !.memory =
        [a \in 0..(MEMORY_SIZE - 1) |->
            IF a >= ROM_BASE /\ a - ROM_BASE < cart.size - 1
            THEN cart.data[a - ROM_BASE]
            ELSE s.memory[a]]]

\* load_rom: for i in 0..cart.size { memory[i + 512] = cart.data[i] }
load_rom(s, cart) ==
    [s EXCEPT !.memory =
        [a \in 0..(MEMORY_SIZE - 1) |->
            IF a >= ROM_BASE /\ a - ROM_BASE < cart.size
            THEN cart.data[a - ROM_BASE]
            ELSE s.memory[a]]]

-----------------------------------------------------------------------------
(* Bounds of the model, and the ROM files it is run on *)

\* run_cycle calls per run (17 calls are needed to overflow the stack)
MaxCycles == 18
\* register values are taken from 0..Spread, 127, 128 and 255-Spread..255
Spread == 1
\* a call is followed by up to MaxCallGap - 1 instructions before its target
MaxCallGap == 2
\* the too-large ROM files have up to MAX_ROM_SIZE + OverSize bytes
OverSize == 1

ByteSamples == (0..Spread) \cup {127, 128} \cup ((255 - Spread)..255)

\* the two bytes of an instruction, big-endian
Ins(w) == <<w \div 256, w % 256>>

Zeros(n) == [i \in 1..n |-> 0]

Fill(n, b) == [i \in 1..n |-> b]

\* 6XNN and ANNN, used to set up registers
Set(X, nn) == Ins(24576 + X * 256 + nn)
SetI(nnn) == Ins(40960 + nnn)

\* V0 = a; V1 = b; then 8014 / 8015 / 8017 / 8016 / 801E
ArithRoms ==
    { Set(0, a) \o Set(1, b) \o Ins(32784 + k) :
        a \in ByteSamples, b \in ByteSamples, k \in {4, 5, 7} }

\* call 0x200 + 2k; (k - 1 times 0000); 00EE at the target, and the
\* scenario of the specification: 2300 at 0x200, 00EE at 0x300
CallRoms ==
    { Ins(8192 + 512 + 2 * k) \o Zeros(2 * (k - 1)) \o Ins(238) :
        k \in (1..MaxCallGap) \cup {128} }
    \cup
    \* nested: call 0x204; (0000); call 0x208; (0000); 00EE
    { Ins(8192 + 516) \o Zeros(2) \o Ins(8192 + 520) \o Zeros(2) \o Ins(238) }
    \cup
    \* 2200 at 0x200 calls itself; 00EE with an empty stack
    { Ins(8192 + 512), Ins(238) }

\* opcodes no arm matches
UnknownRoms ==
    { Ins(61690), Ins(61695), Ins(32792), Ins(32783), Ins(1),
      Ins(57344), Set(0, 3) \o Ins(61440 + 24) \o Ins(32781) }

\* jumps to the end of memory: 1FFF, 1FFE, 1FFC, and V0 = v; BFFF / BFFE
FetchRoms ==
    { Ins(8191), Ins(8190), Ins(8188) }
    \cup { Set(0, v) \o Ins(45056 + n) : v \in {0, 1, 255}, n \in {4094, 4095} }

\* V2 = 63; V0 = x0; V1 = y0; I = 0 (the glyph of 0); D01n twice
DrawRoms ==
    { Set(2, 63) \o Set(0, x0) \o Set(1, y0) \o SetI(0)
        \o Ins(53248 + 16 + n) \o Ins(53248 + 16 + n) :
        x0 \in {0, 2, 5, 15, 63}, y0 \in {1, 2, 20}, n \in {1, 5} }

\* files of 0 bytes, of MAX_ROM_SIZE bytes, and too large ones
SizeRoms ==
    { << >>, Fill(MAX_ROM_SIZE, 18) }
    \cup { Fill(MAX_ROM_SIZE + k, 18) : k \in 1..OverSize }

\* timer values: 0..Spread + 1 and 255
TimerSamples == (0..(Spread + 1)) \cup {255}

\* V0 = a; V1 = b; F015 (delay = V0); F118 (sound = V1); 00E0; F20A (wait
\* for a key), which is retried from then on
TimerRoms ==
    { Set(0, a) \o Set(1, b) \o Ins(61461) \o Ins(61720) \o Ins(224)
        \o Ins(61962) : a \in TimerSamples, b \in TimerSamples }

\* stores and loads through I: V0 = a; I = i; F033 (BCD), and
\* V0 = a; V1 = 7; I = i; F155 (dump V0..V1); F165 (load V0..V1),
\* and a two-row sprite read at I = 4095
MemRoms ==
    { Set(0, a) \o SetI(i) \o Ins(61491) :
        a \in {0, 255 - Spread}, i \in {0, 768, 4094} }
    \cup
    { Set(0, a) \o Set(1, 7) \o SetI(i) \o Ins(61781) \o Ins(61797) :
        a \in {255 - Spread}, i \in {0, 255, 768, 4095} }
    \cup
    { SetI(4095) \o Ins(53250) }

\* the three-step scenario of the specification, and screen clears: 00E0
\* alone, and after the glyph of 0 has been drawn at (0, 0)
ScenarioRoms ==
    { <<96, 10, 97, 5, 128, 20>>,
      Ins(224),
      SetI(0) \o Ins(53253) \o Ins(224) }

\* V0 = a; 8006 (shift right); 800E (shift left), and V0 = a; 800E
ShiftRoms ==
    { Set(0, a) \o Ins(32774) \o Ins(32782) : a \in ByteSamples }
    \cup
    { Set(0, a) \o Ins(32782) : a \in ByteSamples }

\* a straight line of the remaining instructions that are not jumps:
\* V0 = a; 7005; 8100; 8101; 8102; 8103; 8017; F01E; F029; F007; C1FF
StraightRoms ==
    { Set(0, a) \o Ins(28677) \o Ins(33024) \o Ins(33025) \o Ins(33026)
        \o Ins(33027) \o Ins(32791) \o Ins(61470) \o Ins(61481)
        \o Ins(61447) \o Ins(49663) : a \in {Spread, 255 - Spread} }

\* programs that wait for a key: F00A; V1 = 5, and V3 = 9; F30A; V4 = 1
KeyRoms ==
    { Ins(61450) \o Set(1, 5),
      Set(3, 9) \o Ins(62218) \o Set(4, 1) }

\* V0 = a; 70nn (add nn to V0)
AddImmRoms ==
    { Set(0, a) \o Ins(28672 + nn) : a \in ByteSamples, nn \in ByteSamples }

\* V0 = v; I = i; F01E (I += V0), around the 0xFFF boundary, and the same
\* through VF
IndexRoms ==
    { Set(0, v) \o SetI(i) \o Ins(61470) :
        v \in ByteSamples, i \in {0, 3840, 3841, 4095 - Spread, 4095} }
    \cup
    { Set(15, v) \o SetI(i) \o Ins(65310) :
        v \in {Spread, 255}, i \in {3840, 3841} }

\* V0 = k; E09E (skip if key V0 is down) or E0A1 (skip if it is up);
\* V1 = 1; V2 = 2, for the first key, the last key and one past it
SkipKeyRoms ==
    { Set(0, k) \o Ins(57344 + op) \o Set(1, 1) \o Set(2, 2) :
        k \in {0, NUM_KEYS - 1, NUM_KEYS}, op \in {158, 161} }

RomFiles ==
    ArithRoms \cup CallRoms \cup UnknownRoms \cup FetchRoms \cup DrawRoms
    \cup SizeRoms \cup TimerRoms \cup MemRoms \cup ScenarioRoms
    \cup ShiftRoms \cup StraightRoms \cup KeyRoms \cup AddImmRoms
    \cup IndexRoms \cup SkipKeyRoms

-----------------------------------------------------------------------------
(* main *)

Init ==
    /\ opcode = new.opcode
    /\ stack = new.stack
    /\ sp = new.sp
    /\ memory = new.memory
    /\ V = new.V
    /\ I = new.I
    /\ pc = new.pc
    /\ graphics = new.graphics
    /\ draw_to_screen = new.draw_to_screen
    /\ keypad = new.keypad
    /\ delay_timer = new.delay_timer
    /\ sound_timer = new.sound_timer
    /\ stderr = new.stderr
    /\ rom_file \in RomFiles
    /\ overflow_checks \in BOOLEAN
    /\ phase = "boot"
    /\ returned = [kind |-> "none"]
    /\ cycles = 0
    /\ call_sites = << >>
    /\ before = [V |-> new.V, graphics |-> new.graphics]

\* let cart = rom::Cartridge::new(...); catch!(cart); vm.load_rom(cart)
LoadRom ==
    /\ phase = "boot"
    /\ Cartridge_new(rom_file).ok
    /\ memory' = load_rom(VM, Cartridge_new(rom_file)).memory
    /\ phase' = "cycle"
    /\ UNCHANGED <<opcode, stack, sp, V, I, pc, graphics, draw_to_screen,
                   keypad, delay_timer, sound_timer, stderr, rom_file,
                   overflow_checks, returned, cycles, call_sites, before>>

\* catch!(cart) on Err: main prints the error and returns
RejectRom ==
    /\ phase = "boot"
    /\ ~Cartridge_new(rom_file).ok
    /\ phase' = "exited"
    /\ UNCHANGED <<opcode, stack, sp, memory, V, I, pc, graphics,
                   draw_to_screen, keypad, delay_timer, sound_timer, stderr,
                   rom_file, overflow_checks, returned, cycles, call_sites, before>>

\* the bytes rng.gen::<u8>() may return, where the next opcode is CXNN
RandomBytes(s) ==
    IF FetchInBounds(s) /\ BitAnd(fetch_opcode(s), 61440) = 49152
    THEN ByteSamples ELSE {0}

\* the calls not yet returned from, after a step that fetched op at pc p
\* with stack pointer q
CallSitesAfter(sites, op, p, q) ==
    IF BitAnd(op, 61440) = 8192 THEN Append(sites, [pc |-> p, sp |-> q])
    ELSE IF BitAnd(op, 61440) = 0 /\ BitAnd(op, 15) = 14 /\ Len(sites) > 0
    THEN SubSeq(sites, 1, Len(sites) - 1)
    ELSE sites

\* vm.run_cycle() in the main loop
RunCycle ==
    /\ phase = "cycle"
    /\ cycles < MaxCycles
    /\ \E rnd \in RandomBytes(VM) :
         \E r \in {run_cycle(VM, rnd)} :
            /\ opcode' = r.opcode
            /\ stack' = r.stack
            /\ sp' = r.sp
            /\ memory' = r.memory
            /\ V' = r.V
            /\ I' = r.I
            /\ pc' = r.pc
            /\ graphics' = r.graphics
            /\ draw_to_screen' = r.draw_to_screen
            /\ keypad' = r.keypad
            /\ delay_timer' = r.delay_timer
            /\ sound_timer' = r.sound_timer
            /\ stderr' = r.stderr
            /\ phase' = IF r.panicked THEN "panicked" ELSE "render"
            /\ call_sites' = IF r.panicked THEN call_sites
                             ELSE CallSitesAfter(call_sites, r.opcode, pc, sp)
            /\ returned' = [kind |-> IF r.panicked THEN "panic" ELSE "()"]
    /\ cycles' = cycles + 1
    /\ before' = [V |-> V, graphics |-> graphics]
    /\ UNCHANGED <<rom_file, overflow_checks>>

\* if vm.draw_to_screen { ...repaint...; vm.draw_to_screen = false }
Render ==
    /\ phase = "render"
    /\ draw_to_screen' = FALSE
    /\ phase' = "cycle"
    /\ UNCHANGED <<opcode, stack, sp, memory, V, I, pc, graphics, keypad,
                   delay_timer, sound_timer, stderr, rom_file,
                   overflow_checks, returned, cycles, call_sites, before>>

\* Event::Quit or Escape at the top of the loop: break 'main_loop
Quit ==
    /\ phase = "cycle"
    /\ phase' = "exited"
    /\ UNCHANGED <<opcode, stack, sp, memory, V, I, pc, graphics,
                   draw_to_screen, keypad, delay_timer, sound_timer, stderr,
                   rom_file, overflow_checks, returned, cycles, call_sites, before>>

Next == LoadRom \/ RejectRom \/ RunCycle \/ Render \/ Quit

Spec == Init /\ [][Next]_vars

-----------------------------------------------------------------------------
(* The machine with a host that presses keys.  No code of the repository
   writes keypad; the specification gives the host set_key(index, pressed),
   called between steps.  KeySpec is main with that call added. *)

\* the keys the host presses and releases: the first and the last
KeySamples == {0, NUM_KEYS - 1}

\* set_key(index, pressed), called by the host between two steps
SetKey ==
    /\ phase = "cycle"
    /\ \E index \in KeySamples : \E pressed \in {0, 1} :
          /\ keypad[index] # pressed
          /\ keypad' = [keypad EXCEPT ![index] = pressed]
    /\ UNCHANGED <<opcode, stack, sp, memory, V, I, pc, graphics,
                   draw_to_screen, delay_timer, sound_timer, stderr,
                   rom_file, overflow_checks, phase, returned, cycles,
                   call_sites, before>>

KeyInit == Init /\ rom_file \in KeyRoms

KeyNext == LoadRom \/ RunCycle \/ Render \/ Quit \/ SetKey

KeySpec == KeyInit /\ [][KeyNext]_vars

-----------------------------------------------------------------------------
(* Vocabulary of the properties *)

\* this step is one run_cycle call of main
Stepped == phase = "cycle" /\ cycles' = cycles + 1

\* the instruction word at pc, read big-endian
WordAtPc == memory[pc] * 256 + memory[pc + 1]

\* this step is a run_cycle call that fetches the word w
Executes(w) == Stepped /\ pc + 1 < MEMORY_SIZE /\ WordAtPc = w

\* the word a run_cycle call would fetch now, -1 where pc is out of bounds
Fetched == IF pc + 1 < MEMORY_SIZE THEN WordAtPc ELSE -1

\* this step is a run_cycle call that fetches a DXYN
ExecutesDraw == Stepped /\ Fetched \in 53248..57343

\* the fields of an instruction word
ClassOf(w) == w \div 4096
XOf(w) == (w \div 256) % 16
YOf(w) == (w \div 16) % 16
NOf(w) == w % 16
LowByteOf(w) == w % 256

\* the step ran to its end and handed control back to main
Completed == phase' = "render"

-----------------------------------------------------------------------------
(* Call and return *)

\* C1: a return (00EE) that follows a call made at pc = p in 0x200..4094
\* leaves pc = p + 2 and the stack pointer as it was before that call; with
\* nested calls the return addresses come back last in, first out.
C1_CallReturnRoundTrip ==
    [][ ( /\ Executes(238)
          /\ Len(call_sites) > 0
          /\ call_sites[Len(call_sites)].pc \in 512..4094 )
        => ( /\ Completed
             /\ pc' = call_sites[Len(call_sites)].pc + 2
             /\ sp' = call_sites[Len(call_sites)].sp ) ]_vars

-----------------------------------------------------------------------------
(* Arithmetic between registers *)

\* C2: 8XY4 with X, Y distinct and neither VF, VX = a, VY = b: afterwards
\* VX = (a + b) mod 256, VF = 1 iff a + b > 255 (else 0), pc advanced by 2.
C2_AddVyToVx ==
    [][ \A X, Y \in 0..14 :
          ( X # Y /\ Executes(32768 + X * 256 + Y * 16 + 4) )
          => ( /\ Completed
               /\ V'[X] = (V[X] + V[Y]) % 256
               /\ V'[15] = (IF V[X] + V[Y] > 255 THEN 1 ELSE 0)
               /\ pc' = pc + 2 ) ]_vars

\* C3: 8XY5 with X, Y distinct and neither VF, VX = a, VY = b: afterwards
\* VX = (a - b) mod 256, VF = 1 iff b > a (else 0), pc advanced by 2.
C3_SubVyFromVx ==
    [][ \A X, Y \in 0..14 :
          ( X # Y /\ Executes(32768 + X * 256 + Y * 16 + 5) )
          => ( /\ Completed
               /\ V'[X] = (V[X] - V[Y]) % 256
               /\ V'[15] = (IF V[Y] > V[X] THEN 1 ELSE 0)
               /\ pc' = pc + 2 ) ]_vars

-----------------------------------------------------------------------------
(* Sprite drawing *)

\* bit (7 - bit) of the sprite row at memory[I + row]
SpriteBit(row, bit) == (memory[I + row] \div Pow2(7 - bit)) % 2

\* the sprite cells (row, bit) of an N-row sprite that DXYN, drawing at the
\* coordinates (x0, y0), puts on column x of line y
CellsOn(x0, y0, N, x, y) ==
    { c \in (0..(N - 1)) \X (0..7) :
        /\ (x0 + c[2]) % SCREEN_WIDTH = x
        /\ (y0 + c[1]) % SCREEN_HEIGHT = y }

\* C4: DXYN with VX = x0, VY = y0 and I + N <= 4096: the pixel at column
\* (x0 + bit) mod 64 of line (y0 + row) mod 32 becomes old XOR sprite bit,
\* for every row < N and bit < 8; every other pixel is unchanged; the
\* coordinates wrap and nothing outside the grid is accessed.
C4_DrawSpritePixels ==
    [][ LET w == Fetched IN
          ( ExecutesDraw /\ I + NOf(w) <= MEMORY_SIZE )
          => ( /\ Completed
               /\ \A y \in 0..(SCREEN_HEIGHT - 1), x \in 0..(SCREEN_WIDTH - 1) :
                    LET cells == CellsOn(V[XOf(w)], V[YOf(w)], NOf(w), x, y)
                    IN  graphics'[y][x] =
                          IF cells = {} THEN graphics[y][x]
                          ELSE LET c == CHOOSE c \in cells : TRUE
                               IN  (graphics[y][x] + SpriteBit(c[1], c[2])) % 2 ) ]_vars

\* C5: after a DXYN that ran to its end, VF = 1 iff some pixel of the
\* sprite's target area was set before the draw and has sprite bit 1, and
\* VF = 0 otherwise, whatever VF was before.
C5_DrawCollisionFlag ==
    [][ LET w == Fetched IN
          ( ExecutesDraw /\ I + NOf(w) <= MEMORY_SIZE /\ Completed )
          => V'[15] =
               IF \E row \in 0..(NOf(w) - 1), bit \in 0..7 :
                    /\ SpriteBit(row, bit) = 1
                    /\ graphics[(V[YOf(w)] + row) % SCREEN_HEIGHT]
                               [(V[XOf(w)] + bit) % SCREEN_WIDTH] = 1
               THEN 1 ELSE 0 ]_vars

\* C6: the same DXYN executed twice in a row, with the coordinate values VX
\* and VY the same for both draws, leaves every pixel as it was before the
\* first draw.
C6_DrawTwiceRestores ==
    [][ LET w == Fetched IN
          ( /\ ExecutesDraw
            /\ opcode = w
            /\ V[XOf(w)] = before.V[XOf(w)]
            /\ V[YOf(w)] = before.V[YOf(w)]
            /\ Completed )
          => graphics' = before.graphics ]_vars

-----------------------------------------------------------------------------
(* Errors *)

\* the words that match no instruction: 0NNN with low nibble neither 0 nor
\* E, 8XYN with N in 8..D or F, EXNN other than 9E and A1, FXNN other than
\* 07, 0A, 15, 18, 1E, 29, 33, 55, 65
IsUnknownWord(w) ==
    \/ ClassOf(w) = 0 /\ NOf(w) \notin {0, 14}
    \/ ClassOf(w) = 8 /\ NOf(w) \in {8, 9, 10, 11, 12, 13, 15}
    \/ ClassOf(w) = 14 /\ LowByteOf(w) \notin {158, 161}
    \/ ClassOf(w) = 15 /\ LowByteOf(w) \notin {7, 10, 21, 24, 30, 41, 51, 85, 101}

\* the bits of the word that the message of its arm prints
PrintedBits(w) == IF ClassOf(w) \in {0, 8} THEN NOf(w) ELSE LowByteOf(w)

C8_StackBoundErrors ==
    [][ ( Stepped /\ Fetched >= 0 /\
          ( \/ Fetched = 238 /\ sp = 0
            \/ ClassOf(Fetched) = 2 /\ sp = STACK_SIZE ) )
        => ( /\ returned' = [kind |-> "Err",
                             error |-> IF Fetched = 238 THEN "StackUnderflow"
                                       ELSE "StackOverflow"]
             /\ phase' # "panicked"
             /\ pc' = pc /\ sp' = sp /\ stack' = stack ) ]_vars

\* C9: the word fetched at pc is (memory[pc] << 8) | memory[pc + 1]; a step
\* that starts with pc + 1 >= 4096 fails with FetchOutOfBounds and changes
\* no machine state, instead of reading outside memory.
C9_FetchBounds ==
    [][ Stepped =>
          IF pc + 1 >= MEMORY_SIZE
          THEN /\ returned' = [kind |-> "Err", error |-> "FetchOutOfBounds"]
               /\ phase' # "panicked"
               /\ UNCHANGED <<opcode, stack, sp, memory, V, I, pc, graphics,
                              draw_to_screen, keypad, delay_timer, sound_timer>>
          ELSE opcode' = memory[pc] * 256 + memory[pc + 1] ]_vars

-----------------------------------------------------------------------------
(* Loading *)

\* C10: loading a file of more than 3584 bytes fails and leaves memory
\* unchanged; loading len <= 3584 bytes sets memory[512 + i] to byte i of the
\* file for every i < len and leaves every other byte of memory unchanged.
C10_ProgramLoad ==
    [][ phase = "boot" =>
          IF Len(rom_file) > 3584
          THEN phase' = "exited" /\ memory' = memory
          ELSE /\ phase' = "cycle"
               /\ \A i \in 0..(Len(rom_file) - 1) :
                     memory'[512 + i] = rom_file[i + 1]
               /\ \A a \in 0..(MEMORY_SIZE - 1) :
                     (a < 512 \/ a >= 512 + Len(rom_file)) => memory'[a] = memory[a]
      ]_vars

\* C10 witness: a file of exactly 3584 bytes has been loaded up to the last
\* byte of memory, the glyph table still in place
C10_Witness ==
    /\ phase = "cycle"
    /\ cycles = 0
    /\ Len(rom_file) = 3584
    /\ memory[4095] = rom_file[3584]
    /\ memory[512] = rom_file[1]
    /\ memory[0] = 240
    /\ memory[511] = 0

-----------------------------------------------------------------------------
(* C11: the glyph table *)

\* the bytes 0..79 of memory are the glyph table
GlyphTableIntact ==
    \A i \in 0..(FONTSET_SIZE - 1) : memory[i] = FONTSET[i + 1]

\* w is a BCD store (FX33) or a register dump (FX55)
IsMemoryStore(w) == ClassOf(w) = 15 /\ LowByteOf(w) \in {51, 85}

-----------------------------------------------------------------------------
(* C12: the timers count down *)

\* t - 1, or 0 where t is 0
CountedDown(t) == IF t > 0 THEN t - 1 ELSE 0

\* C12: delay_timer and sound_timer are each in 0..255 in every state, and
\* every step that returns and whose instruction does not set a timer
\* (FX15 sets the delay timer, FX18 the sound timer) leaves that timer at
\* max(0, old - 1), whatever the other timer is.
C12_TimerCountdown ==
    /\ [](delay_timer \in 0..255 /\ sound_timer \in 0..255)
    /\ [][ LET w == Fetched
           IN  Stepped /\ Completed =>
                 /\ (~(ClassOf(w) = 15 /\ LowByteOf(w) = 21)
                       => delay_timer' = CountedDown(delay_timer))
                 /\ (~(ClassOf(w) = 15 /\ LowByteOf(w) = 24)
                       => sound_timer' = CountedDown(sound_timer))
         ]_vars

\* a step of 00E0 has taken the delay timer from 253 to 252 while the
\* sound timer stayed at 0
C12_Witness ==
    /\ phase = "render"
    /\ opcode = 224
    /\ delay_timer = 252
    /\ sound_timer = 0

-----------------------------------------------------------------------------
(* C13: the sound timer set to 1 *)

\* w is FX18
IsSetSound(w) == ClassOf(w) = 15 /\ LowByteOf(w) = 24

\* C13 as stated: after FX18 with VX = 1 the sound timer is 1, and the next
\* step, of an instruction that does not set it, takes it from 1 to 0.
C13_SoundTimerOneAfterSet ==
    [][ LET w == Fetched
        IN  Stepped /\ IsSetSound(w) /\ V[XOf(w)] = 1
              => sound_timer' = 1 ]_vars

\* C13 amended: the step that executes FX18 sets the sound timer to VX and
\* ends with the timer code of every step, so it leaves the sound timer at
\* max(0, VX - 1): with VX = 1 the timer is already 0 when FX18 returns,
\* and the 1 -> 0 transition is made by the FX18 step itself.
C13_SoundTimerTickedOnSet ==
    [][ LET w == Fetched
        IN  Stepped /\ IsSetSound(w)
              => /\ Completed
                 /\ sound_timer' = CountedDown(V[XOf(w)])
                 /\ delay_timer' = CountedDown(delay_timer) ]_vars

\* F118 has run with V1 = 1 and left the sound timer at 0
C13_Witness ==
    /\ phase = "render"
    /\ opcode = 61720
    /\ V[1] = 1
    /\ sound_timer = 0

-----------------------------------------------------------------------------
(* C14: FX0A while no key is pressed *)

\* w is FX0A
IsWaitKey(w) == ClassOf(w) = 15 /\ LowByteOf(w) = 10

\* the keys that are down
PressedKeys == {k \in 0..(NUM_KEYS - 1) : keypad[k] # 0}

\* C14: a step that executes FX0A while no key is pressed returns, leaves
\* PC, the registers, I, the stack, the stack pointer, memory, the display
\* and the dirty flag unchanged, counts each timer down by one (not below
\* 0), and so the next step fetches the same FX0A again.
C14_WaitKeyNoKey ==
    [][ Stepped /\ IsWaitKey(Fetched) /\ PressedKeys = {}
          => /\ Completed
             /\ UNCHANGED <<pc, V, I, stack, sp, memory, graphics,
                            draw_to_screen>>
             /\ delay_timer' = CountedDown(delay_timer)
             /\ sound_timer' = CountedDown(sound_timer)
             /\ Fetched' = Fetched ]_vars

\* F20A has been executed at 0x20A at least twice with no key pressed,
\* while the delay timer was still running
C14_Witness ==
    /\ phase = "render"
    /\ opcode = 61962
    /\ pc = 522
    /\ cycles >= 7
    /\ PressedKeys = {}
    /\ delay_timer > 0

-----------------------------------------------------------------------------
(* C15: FX0A while a key is pressed (checked under KeySpec) *)

\* the last step executed an FX0A and stepped over it
PassedWaitKey ==
    /\ returned = [kind |-> "()"]
    /\ IsWaitKey(opcode)
    /\ pc >= 2
    /\ memory[pc - 2] * 256 + memory[pc - 1] = opcode

\* C15: a step that executes FX0A while at least one key is pressed returns,
\* stores in VX the index of a key that is pressed at that step, leaves the
\* other registers alone and advances PC by 2; the next step fetches the
\* instruction that follows the FX0A and executes it (here a 6XNN: it
\* sets its register and advances PC by 2).
C15_WaitKeyPressed ==
    [][ /\ LET w == Fetched
           IN  Stepped /\ IsWaitKey(w) /\ PressedKeys # {}
                 => /\ Completed
                    /\ V'[XOf(w)] \in PressedKeys
                    /\ \A r \in 0..(NUM_REGS - 1) :
                          r # XOf(w) => V'[r] = V[r]
                    /\ pc' = pc + 2
                    /\ PassedWaitKey'
        /\ LET w == Fetched
           IN  Stepped /\ PassedWaitKey
                 => /\ Completed
                    /\ opcode' = w
                    /\ ClassOf(w) = 6
                    /\ V'[XOf(w)] = LowByteOf(w)
                    /\ pc' = pc + 2
      ]_vars

\* with keys 0 and 15 down, F00A has stored 15 in V0 and the following
\* 6105 has run
C15_Witness ==
    /\ phase = "render"
    /\ opcode = 24837
    /\ pc = 516
    /\ V[0] = 15
    /\ V[1] = 5

-----------------------------------------------------------------------------
(* C16: the three-step scenario *)

\* the program 60 0A, 61 05, 80 14
ScenarioRom == <<96, 10, 97, 5, 128, 20>>

\* C16: loading the bytes 60 0A 61 05 80 14 into a fresh machine and taking
\* three steps leaves V0 = 15, V1 = 5, VF = 0 and PC = 0x206, and each of
\* the three steps returns.
C16_ThreeStepScenario ==
    rom_file = ScenarioRom =>
        /\ (cycles \in 1..3 /\ phase \in {"render", "cycle", "exited"}
              => pc = PC_START + 2 * cycles)
        /\ (cycles <= 3 => phase # "panicked")
        /\ (cycles = 3 => V[0] = 15 /\ V[1] = 5 /\ V[15] = 0 /\ pc = 518)

\* the third step of the scenario has just returned
C16_Witness ==
    /\ rom_file = ScenarioRom
    /\ cycles = 3
    /\ phase = "render"
    /\ opcode = 32788
    /\ V[0] = 15

-----------------------------------------------------------------------------
(* C17: clear screen *)

\* every display cell is 0
ScreenBlank ==
    \A y \in 0..(SCREEN_HEIGHT - 1) : \A x \in 0..(SCREEN_WIDTH - 1) :
        graphics[y][x] = 0

\* C17: a step that executes 00E0 returns and leaves every display pixel
\* 0, the dirty flag true and PC advanced by 2, with the registers, I, the
\* stack, the stack pointer and memory unchanged, whatever the display
\* held before.
C17_ClearScreen ==
    [][ Executes(224)
          => /\ Completed
             /\ ScreenBlank'
             /\ draw_to_screen'
             /\ pc' = pc + 2
             /\ UNCHANGED <<V, I, stack, sp, memory>> ]_vars

\* 00E0 has cleared a display that showed the glyph of 0
C17_Witness ==
    /\ phase = "render"
    /\ opcode = 224
    /\ before.graphics[0][0] = 1
    /\ ScreenBlank
    /\ draw_to_screen

-----------------------------------------------------------------------------
(* C18: memory bounds *)

\* the instruction w, run now, would read or write memory at 4096 or above:
\* a sprite row of DXYN at I + row, the digits of FX33 at I..I + 2, the
\* registers of FX55 / FX65 at I..I + X
TouchesBeyondMemory(w) ==
    \/ ClassOf(w) = 13 /\ NOf(w) >= 1 /\ I + NOf(w) - 1 >= MEMORY_SIZE
    \/ ClassOf(w) = 15 /\ LowByteOf(w) = 51 /\ I + 2 >= MEMORY_SIZE
    \/ ClassOf(w) = 15 /\ LowByteOf(w) \in {85, 101}
          /\ I + XOf(w) >= MEMORY_SIZE

\* C18: a DXYN, FX33, FX55 or FX65 that would read or write an address at
\* or above 4096 makes the step return the error OutOfBounds to its caller,
\* instead of touching memory outside the 4096 bytes (or crashing).
C18_MemoryBoundErrors ==
    [][ Stepped /\ Fetched >= 0 /\ TouchesBeyondMemory(Fetched)
          => /\ returned' = [kind |-> "Err", error |-> "OutOfBounds"]
             /\ phase' # "panicked" ]_vars

-----------------------------------------------------------------------------
(* C19: PC advance *)

\* w is one of the instructions that neither jump nor skip: 00E0, 6XNN,
\* 7XNN, 8XY0..8XY7, 8XYE, ANNN, CXNN, DXYN, FX07, FX15, FX18, FX1E, FX29,
\* FX33, FX55, FX65, and FX0A while a key is pressed
IsStraightLine(w) ==
    \/ w = 224
    \/ ClassOf(w) \in {6, 7, 10, 12, 13}
    \/ ClassOf(w) = 8 /\ NOf(w) \in (0..7) \cup {14}
    \/ ClassOf(w) = 15 /\ LowByteOf(w) \in {7, 21, 24, 30, 41, 51, 85, 101}
    \/ IsWaitKey(w) /\ PressedKeys # {}

\* C19: every step that executes one of the instructions that neither jump
\* nor skip, and returns, leaves PC exactly 2 above its value before the
\* step.
C19_PcAdvance ==
    [][ Stepped /\ Completed /\ IsStraightLine(Fetched)
          => pc' = pc + 2 ]_vars

-----------------------------------------------------------------------------
(* C20: the stack pointer *)

\* C20: in every state reached from construction by any steps of any loaded
\* program, 0 <= sp <= 16, and sp is the number of calls executed minus the
\* number of returns executed so far.
C20_StackPointer ==
    /\ sp \in 0..STACK_SIZE
    /\ sp = Len(call_sites)

-----------------------------------------------------------------------------
(* C21: add immediate *)

\* C21: a step that executes 7XNN with VX = a returns and leaves
\* VX = (a + NN) mod 256, also where a + NN > 255, every other register
\* (VF included, when X is not F) as it was, and PC advanced by 2.
C21_AddImmediate ==
    [][ LET w == Fetched
        IN  Stepped /\ ClassOf(w) = 7
              => /\ Completed
                 /\ V'[XOf(w)] = (V[XOf(w)] + LowByteOf(w)) % U8
                 /\ \A r \in 0..(NUM_REGS - 1) :
                       r # XOf(w) => V'[r] = V[r]
                 /\ pc' = pc + 2 ]_vars

-----------------------------------------------------------------------------
(* C22: reverse subtract *)

\* C22: a step that executes 8XY7 with X and Y distinct and neither F,
\* VX = a and VY = b, returns and leaves VX = (b - a) mod 256 and VF = 1
\* if a > b (VY - VX borrows), VF = 0 otherwise.
C22_ReverseSubtract ==
    [][ LET w == Fetched
        IN  Stepped /\ ClassOf(w) = 8 /\ NOf(w) = 7
            /\ XOf(w) # YOf(w) /\ XOf(w) # 15 /\ YOf(w) # 15
              => /\ Completed
                 /\ V'[XOf(w)] = (V[YOf(w)] - V[XOf(w)] + U8) % U8
                 /\ V'[15] = (IF V[XOf(w)] > V[YOf(w)] THEN 1 ELSE 0)
      ]_vars

-----------------------------------------------------------------------------
(* C23: shift left *)

\* C23: a step that executes 8XYE with X not F and VX = a returns and
\* leaves VF equal to the most significant bit of a as 0 or 1 (1 if and
\* only if a >= 128) and VX = (2 * a) mod 256.
C23_ShiftLeft ==
    [][ LET w == Fetched
        IN  Stepped /\ ClassOf(w) = 8 /\ NOf(w) = 14 /\ XOf(w) # 15
              => /\ Completed
                 /\ V'[15] = (IF V[XOf(w)] >= 128 THEN 1 ELSE 0)
                 /\ V'[XOf(w)] = (2 * V[XOf(w)]) % U8 ]_vars

-----------------------------------------------------------------------------
(* C24: add VX to I *)

\* C24: a step that executes FX1E with I in 0..0xFFF and VX = v returns and
\* leaves VF = 1 if I + v > 0xFFF and VF = 0 otherwise, the index register
\* at I + v, every register other than VF as it was, and PC advanced by 2.
C24_AddToIndex ==
    [][ LET w == Fetched
        IN  Stepped /\ ClassOf(w) = 15 /\ LowByteOf(w) = 30 /\ I \in 0..4095
              => /\ Completed
                 /\ V'[15] = (IF I + V[XOf(w)] > 4095 THEN 1 ELSE 0)
                 /\ I' = I + V[XOf(w)]
                 /\ \A r \in 0..(NUM_REGS - 2) : V'[r] = V[r]
                 /\ pc' = pc + 2 ]_vars

\* F01E has added 255 to I = 3841: the sum 4096 is past 0xFFF and VF is 1
C24_Witness ==
    /\ phase = "render"
    /\ opcode = 61470
    /\ V[0] = 255
    /\ I = 4096
    /\ V[15] = 1

-----------------------------------------------------------------------------
(* C25, C26: register dump and register load *)

\* C25: a step that executes FX55 with I + X < 4096 (I >= 256 included)
\* returns and leaves memory[I + i] = Vi for every i in 0..X, every other
\* byte of memory and every register as it was, the index register at
\* I + X + 1, and PC advanced by 2.
C25_RegisterDump ==
    [][ LET w == Fetched
            X == XOf(w)
        IN  Stepped /\ ClassOf(w) = 15 /\ LowByteOf(w) = 85
            /\ I + X < MEMORY_SIZE
              => /\ Completed
                 /\ \A a \in 0..(MEMORY_SIZE - 1) :
                       memory'[a] = IF a \in I..(I + X) THEN V[a - I]
                                    ELSE memory[a]
                 /\ V' = V
                 /\ I' = I + X + 1
                 /\ pc' = pc + 2 ]_vars

\* C26: a step that executes FX65 with I + X < 4096 (I >= 256 included)
\* returns and leaves Vi = memory[I + i] for every i in 0..X, the registers
\* above VX and memory as they were, the index register at I + X + 1, and
\* PC advanced by 2.
C26_RegisterLoad ==
    [][ LET w == Fetched
            X == XOf(w)
        IN  Stepped /\ ClassOf(w) = 15 /\ LowByteOf(w) = 101
            /\ I + X < MEMORY_SIZE
              => /\ Completed
                 /\ \A r \in 0..(NUM_REGS - 1) :
                       V'[r] = IF r <= X THEN memory[I + r] ELSE V[r]
                 /\ memory' = memory
                 /\ I' = I + X + 1
                 /\ pc' = pc + 2 ]_vars

-----------------------------------------------------------------------------
(* C27: the keypad of the program as it is *)

\* w is EX9E / EXA1
IsSkipIfKey(w) == ClassOf(w) = 14 /\ LowByteOf(w) = 158
IsSkipIfNoKey(w) == ClassOf(w) = 14 /\ LowByteOf(w) = 161

\* C27: nothing in the machine or in the main loop writes the keypad, so
\* all 16 keys are released in every reachable state; hence once PC is at
\* an FX0A it stays there through every later step of the loop, EX9E
\* never skips (with VX in 0..15 it advances PC by 2), and EXA1 with VX in
\* 0..15 always skips (PC advances by 4).
C27_KeypadNeverPressed ==
    /\ [](\A k \in 0..(NUM_KEYS - 1) : keypad[k] = 0)
    /\ [][ LET w == Fetched
           IN  /\ (phase # "boot" /\ IsWaitKey(w)
                     => pc' = pc /\ Fetched' = w)
               /\ (Stepped /\ IsSkipIfKey(w)
                     => /\ pc' # pc + 4
                        /\ (V[XOf(w)] < NUM_KEYS
                              => Completed /\ pc' = pc + 2))
               /\ (Stepped /\ IsSkipIfNoKey(w) /\ V[XOf(w)] < NUM_KEYS
                     => Completed /\ pc' = pc + 4)
         ]_vars

\* E0A1 with V0 = 15 has skipped 6101, and 6202 has run
C27_Witness ==
    /\ phase = "render"
    /\ rom_file = Set(0, 15) \o Ins(57505) \o Set(1, 1) \o Set(2, 2)
    /\ opcode = 25090
    /\ V[1] = 0
    /\ V[2] = 2
    /\ PressedKeys = {}
=============================================================================
